---- MODULE Spec2Model ----
(***************************************************************************)
(* Model of src/network.rs (os-interface, Linux build): the enumeration of *)
(* the network interfaces from the getifaddrs() list, the merge of the raw *)
(* records into one NetworkInterface per interface index, and the derived  *)
(* queries local_ipv4_addresses() and local_ipv6_addresses().              *)
(*                                                                         *)
(* One behaviour is one call.  The operating system's answers (the status  *)
(* of getifaddrs, the raw list, what if_nametoindex returns for each       *)
(* record) are drawn in Init; whether the write of the diagnostic to       *)
(* stderr succeeds is drawn when eprint! runs.                             *)
(***************************************************************************)
EXTENDS Integers, Sequences, FiniteSets, TLC

VARIABLES
    osStatus,       \* what getifaddrs() returns in this call
    osList,         \* the raw list getifaddrs() hands out (positions 1..Len)
    pc,             \* position of the call
    ifaddr_ptr,     \* head of the list, 0 is the null pointer
    current_ptr,    \* cursor of the walk, 0 is the null pointer
    interfaces,     \* BTreeMap<u32, NetworkInterface>
    nodesRead,      \* number of raw records dereferenced so far
    released,       \* number of freeifaddrs() calls so far
    readAfterFree,  \* a raw record was dereferenced after freeifaddrs()
    result,         \* what network_interfaces() returned
    derived         \* what local_ipv4/ipv6_addresses() returned

vars == <<osStatus, osList, pc, ifaddr_ptr, current_ptr, interfaces,
          nodesRead, released, readAfterFree, result, derived>>

----------------------------------------------------------------------------
(* Bounds of the model *)

\* longest raw list handed out by getifaddrs()
MaxLen == 2

----------------------------------------------------------------------------
(* libc constants (Linux) *)

AF_INET == 2
AF_INET6 == 10
AF_PACKET == 17
IFF_UP == 1
IFF_BROADCAST == 2
IFF_LOOPBACK == 8
IFF_RUNNING == 64
IFF_MULTICAST == 4096

NULL == [null |-> TRUE]

\* Option<T>
None == [some |-> FALSE]
Some(x) == [some |-> TRUE, val |-> x]

----------------------------------------------------------------------------
(* The raw records the operating system may hand out *)

\* The interfaces of the host: the kernel reports one name, one index and
\* one flag word per interface, repeated on each of its records.
HostInterfaces ==
    { [ifa_name |-> "lo", if_index |-> 1,
       ifa_flags |-> IFF_UP + IFF_LOOPBACK + IFF_RUNNING],
      [ifa_name |-> "eth0", if_index |-> 2,
       ifa_flags |-> IFF_UP + IFF_BROADCAST + IFF_RUNNING + IFF_MULTICAST] }

\* What if_nametoindex(ifa_name) answers when the walk reaches a record of
\* interface h: its index, or 0 when the interface has vanished by then
Resolutions(h) == {h.if_index, 0}

\* sockaddr payloads: ifa_addr, ifa_netmask and ifa_ifu of one record.
\* Addresses are the bytes as they lie in memory (network byte order).
Payloads ==
    { [ifa_addr |-> NULL, ifa_netmask |-> NULL, ifa_ifu |-> NULL],
      [ifa_addr |-> [sa_family |-> AF_INET, sin_addr |-> <<127, 0, 0, 1>>],
       ifa_netmask |-> [sa_family |-> AF_INET, sin_addr |-> <<255, 0, 0, 0>>],
       ifa_ifu |-> NULL],
      [ifa_addr |-> [sa_family |-> AF_INET, sin_addr |-> <<192, 168, 1, 10>>],
       ifa_netmask |-> NULL,
       ifa_ifu |-> [sa_family |-> AF_INET, sin_addr |-> <<192, 168, 1, 255>>]],
      [ifa_addr |-> [sa_family |-> AF_INET6,
                     sin6_addr |-> <<254, 128, 0, 0, 0, 0, 0, 0, 0, 0, 0, 0, 0, 0, 0, 1>>],
       ifa_netmask |-> NULL, ifa_ifu |-> NULL],
      [ifa_addr |-> [sa_family |-> AF_INET6,
                     sin6_addr |-> <<32, 1, 13, 184, 0, 0, 0, 0, 0, 0, 0, 0, 0, 0, 0, 1>>],
       ifa_netmask |-> [sa_family |-> AF_INET6,
                        sin6_addr |-> <<255, 255, 255, 255, 255, 255, 255, 255,
                                        0, 0, 0, 0, 0, 0, 0, 0>>],
       ifa_ifu |-> NULL],
      [ifa_addr |-> [sa_family |-> AF_PACKET, sll_halen |-> 6,
                     sll_addr |-> <<170, 187, 204, 221, 238, 255, 0, 0>>],
       ifa_netmask |-> NULL, ifa_ifu |-> NULL],
      [ifa_addr |-> [sa_family |-> AF_PACKET, sll_halen |-> 8,
                     sll_addr |-> <<0, 27, 33, 10, 11, 12, 13, 14>>],
       ifa_netmask |-> NULL, ifa_ifu |-> NULL],
      \* a family that is none of the three; the bytes at the place of
      \* sll_halen and sll_addr read as 6 and as a hardware address
      [ifa_addr |-> [sa_family |-> AF_PACKET - 1, sll_halen |-> 6,
                     sll_addr |-> <<2, 0, 0, 0, 0, 1, 0, 0>>],
       ifa_netmask |-> NULL, ifa_ifu |-> NULL] }

\* struct ifaddrs, without ifa_next (the next node is the next position);
\* ifindex is the answer of if_nametoindex for this record
RawRecords ==
    UNION { { [ifa_name |-> h.ifa_name, ifindex |-> x, ifa_flags |-> h.ifa_flags,
               ifa_addr |-> p.ifa_addr, ifa_netmask |-> p.ifa_netmask,
               ifa_ifu |-> p.ifa_ifu] : x \in Resolutions(h), p \in Payloads }
            : h \in HostInterfaces }

RawLists == UNION { [1..n -> RawRecords] : n \in 0..MaxLen }

\* ifa_next of the node at position p
ifa_next(p) == IF p < Len(osList) THEN p + 1 ELSE 0

----------------------------------------------------------------------------
(* Decoders *)

\* flags as i32 & bit != 0, for a single-bit mask
BitSet(flags, bit) == (flags \div bit) % 2 = 1

\* the Flags literal of network_interfaces
TranslateFlags(flags) ==
    [up        |-> BitSet(flags, IFF_UP),
     loopback  |-> BitSet(flags, IFF_LOOPBACK),
     running   |-> BitSet(flags, IFF_RUNNING),
     multicast |-> BitSet(flags, IFF_MULTICAST),
     broadcast |-> BitSet(flags, IFF_BROADCAST)]

\* A u32 is written as its four bytes, the most significant first (the
\* numbers themselves exceed the integers of the model checker).
\* sin_addr.s_addr: the u32 a little-endian host reads from four bytes
s_addr(bytes) == <<bytes[4], bytes[3], bytes[2], bytes[1]>>

\* u32::to_be and u32::from_be on a little-endian host: swap the bytes
swap_bytes(x) == <<x[4], x[3], x[2], x[1]>>

\* Ipv4Addr::from(u32): the octets are the big-endian bytes of the number
Ipv4Addr_from(x) == <<x[1], x[2], x[3], x[4]>>

if_addr_v4(ifa, flags) ==
    [tag |-> "IPv4",
     ip |-> Ipv4Addr_from(swap_bytes(s_addr(ifa.ifa_addr.sin_addr))),
     netmask |-> IF ifa.ifa_netmask # NULL
                 THEN Some(Ipv4Addr_from(swap_bytes(s_addr(ifa.ifa_netmask.sin_addr))))
                 ELSE None,
     broadcast |-> IF ifa.ifa_ifu # NULL /\ flags.broadcast
                   THEN Some(Ipv4Addr_from(swap_bytes(s_addr(ifa.ifa_ifu.sin_addr))))
                   ELSE None]

if_addr_v6(ifa) ==
    [tag |-> "IPv6",
     ip |-> ifa.ifa_addr.sin6_addr,
     netmask |-> IF ifa.ifa_netmask # NULL
                 THEN Some(ifa.ifa_netmask.sin6_addr)
                 ELSE None]

\* Ipv6Addr::is_unicast_link_local: (segments()[0] & 0xffc0) == 0xfe80
is_unicast_link_local(ip) ==
    LET seg0 == ip[1] * 256 + ip[2]
    IN  seg0 - (seg0 % 64) = 65152

HexDigit ==
    <<"0", "1", "2", "3", "4", "5", "6", "7", "8", "9", "a", "b", "c", "d", "e", "f">>

\* {:02x}
Hex2(b) == HexDigit[(b \div 16) + 1] \o HexDigit[(b % 16) + 1]

mac_to_string(mac) ==
    Hex2(mac[1]) \o ":" \o Hex2(mac[2]) \o ":" \o Hex2(mac[3]) \o ":"
        \o Hex2(mac[4]) \o ":" \o Hex2(mac[5]) \o ":" \o Hex2(mac[6])

\* mac_addr without the test of the declared length
mac_addr_anylen(ifa, family) ==
    IF family = AF_PACKET
    THEN Some(mac_to_string(ifa.ifa_addr.sll_addr))
    ELSE None

mac_addr(ifa, family) ==
    IF family = AF_PACKET /\ ifa.ifa_addr.sll_halen = 6
    THEN Some(mac_to_string(ifa.ifa_addr.sll_addr))
    ELSE None

----------------------------------------------------------------------------
(* The map of interfaces *)

\* update_interfaces replacing the address list of an existing slot
update_interfaces_overwrite(index, name, addr, flags, map) ==
    IF index \in DOMAIN map
    THEN [map EXCEPT ![index].addr = <<addr>>]
    ELSE map @@ (index :> [index |-> index, name |-> name, addr |-> <<addr>>,
                           mac_addr |-> None, flags |-> flags])

\* update_interfaces storing the flags of every record it merges
update_interfaces_lastflags(index, name, addr, flags, map) ==
    IF index \in DOMAIN map
    THEN [map EXCEPT ![index].addr = Append(@, addr), ![index].flags = flags]
    ELSE map @@ (index :> [index |-> index, name |-> name, addr |-> <<addr>>,
                           mac_addr |-> None, flags |-> flags])

update_interfaces(index, name, addr, flags, map) ==
    IF index \in DOMAIN map
    THEN [map EXCEPT ![index].addr = Append(@, addr)]
    ELSE map @@ (index :> [index |-> index, name |-> name, addr |-> <<addr>>,
                           mac_addr |-> None, flags |-> flags])

\* update_interfaces_with_mac storing the name of every record it merges
update_interfaces_with_mac_renames(index, name, mac, flags, map) ==
    IF index \in DOMAIN map
    THEN [map EXCEPT ![index].mac_addr = mac, ![index].name = name]
    ELSE map @@ (index :> [index |-> index, name |-> name, addr |-> <<>>,
                           mac_addr |-> mac, flags |-> flags])

update_interfaces_with_mac(index, name, mac, flags, map) ==
    IF index \in DOMAIN map
    THEN [map EXCEPT ![index].mac_addr = mac]
    ELSE map @@ (index :> [index |-> index, name |-> name, addr |-> <<>>,
                           mac_addr |-> mac, flags |-> flags])

Min(S) == CHOOSE x \in S : \A y \in S : x <= y

RECURSIVE ValuesFrom(_, _)
ValuesFrom(map, keys) ==
    IF keys = {} THEN <<>>
    ELSE <<map[Min(keys)]>> \o ValuesFrom(map, keys \ {Min(keys)})

RECURSIVE ValuesDownFrom(_, _)
ValuesDownFrom(map, keys) ==
    IF keys = {} THEN <<>>
    ELSE LET top == CHOOSE x \in keys : \A y \in keys : y <= x
         IN  <<map[top]>> \o ValuesDownFrom(map, keys \ {top})

\* the values in descending order of key
into_values_descending(map) == ValuesDownFrom(map, DOMAIN map)

\* BTreeMap::into_values().collect(): the values in ascending order of key
into_values(map) == ValuesFrom(map, DOMAIN map)

----------------------------------------------------------------------------
(* Derived queries over the returned collection *)

\* Iterator::find_map, given the closure's result on each element in turn:
\* the first result that is Some, None when there is none
find_map(picked) ==
    LET hits == { i \in 1..Len(picked) : picked[i].some }
    IN  IF hits = {} THEN None ELSE picked[Min(hits)]

IsSome(o) == o.some

\* Iterator::filter_map(..).collect(), given the closure's result on each
\* element in turn: the values of the Some results, in order
filter_map(mapped) ==
    LET kept == SelectSeq(mapped, IsSome)
    IN  [i \in 1..Len(kept) |-> kept[i].val]

PickIpv4(addr) == IF addr.tag = "IPv4" THEN Some(addr.ip) ELSE None

\* PickIpv6 without the link-local guard
PickIpv6_any(addr) == IF addr.tag = "IPv6" THEN Some(addr.ip) ELSE None

PickIpv6(addr) ==
    IF addr.tag = "IPv6" /\ ~is_unicast_link_local(addr.ip)
    THEN Some(addr.ip) ELSE None

\* Ipv4OfInterface without the loopback test
Ipv4OfInterface_any(ni) ==
    find_map([j \in 1..Len(ni.addr) |-> PickIpv4(ni.addr[j])])

Ipv4OfInterface(ni) ==
    IF ~ni.flags.loopback
    THEN find_map([j \in 1..Len(ni.addr) |-> PickIpv4(ni.addr[j])])
    ELSE None

Ipv6OfInterface(ni) ==
    IF ~ni.flags.loopback
    THEN find_map([j \in 1..Len(ni.addr) |-> PickIpv6(ni.addr[j])])
    ELSE None

----------------------------------------------------------------------------
(* The call *)

Ok(v) == [ok |-> TRUE, val |-> v]
Err(e) == [ok |-> FALSE, err |-> e]
NoResult == [ok |-> FALSE, pending |-> TRUE]

\* Error::FailedToGetResource(format!("getifaddrs returned {res}"))
FailedToGetResource(res) ==
    [kind |-> "FailedToGetResource", msg |-> "getifaddrs returned " \o ToString(res)]

Statuses == {-1, 0, 1}

Init ==
    /\ osStatus \in Statuses
    /\ osList \in RawLists
    /\ osStatus # 0 => osList = <<>>
    /\ pc = "start"
    /\ ifaddr_ptr = 0
    /\ current_ptr = 0
    /\ interfaces = <<>>
    /\ nodesRead = 0
    /\ released = 0
    /\ readAfterFree = FALSE
    /\ result = NoResult
    /\ derived = NoResult

\* the early return, releasing the list it never got
GetIfAddrsFailed_releases ==
    /\ pc = "start"
    /\ osStatus # 0
    /\ result' = Err([kind |-> "FailedToGetResource",
                      msg |-> "getifaddrs returned " \o ToString(osStatus)])
    /\ released' = released + 1
    /\ pc' = "returned"
    /\ UNCHANGED <<osStatus, osList, ifaddr_ptr, current_ptr, interfaces,
                   nodesRead, readAfterFree, derived>>

\* getifaddrs failed: the early return
GetIfAddrsFailed ==
    /\ pc = "start"
    /\ osStatus # 0
    /\ result' = Err(FailedToGetResource(osStatus))
    /\ pc' = "returned"
    /\ UNCHANGED <<osStatus, osList, ifaddr_ptr, current_ptr, interfaces,
                   nodesRead, released, readAfterFree, derived>>

\* getifaddrs succeeded: the empty map, the cursor on the head of the list
GetIfAddrsOk ==
    /\ pc = "start"
    /\ osStatus = 0
    /\ ifaddr_ptr' = (IF Len(osList) > 0 THEN 1 ELSE 0)
    /\ current_ptr' = ifaddr_ptr'
    /\ interfaces' = <<>>
    /\ pc' = "walk"
    /\ UNCHANGED <<osStatus, osList, nodesRead, released, readAfterFree,
                   result, derived>>

\* the node under the cursor, and what every iteration computes first
Ifa == osList[current_ptr]
Index == Ifa.ifindex
FlagsOfIfa == TranslateFlags(Ifa.ifa_flags)

\* common to the iterations that complete: the read of the node, the advance
Iterate ==
    /\ pc = "walk"
    /\ current_ptr # 0
    /\ nodesRead' = nodesRead + 1
    /\ readAfterFree' = (readAfterFree \/ released > 0)
    /\ current_ptr' = ifa_next(current_ptr)
    /\ UNCHANGED <<osStatus, osList, pc, ifaddr_ptr, released, result, derived>>

\* index == 0 and eprint! cannot write to stderr: eprint! panics and the
\* call unwinds from inside the loop
DiagnosticPanics ==
    /\ pc = "walk"
    /\ current_ptr # 0
    /\ Index = 0
    /\ nodesRead' = nodesRead + 1
    /\ readAfterFree' = (readAfterFree \/ released > 0)
    /\ pc' = "panicked"
    /\ UNCHANGED <<osStatus, osList, ifaddr_ptr, current_ptr, interfaces,
                   released, result, derived>>

\* ifa_addr is null: continue
WalkNullAddr ==
    /\ Iterate
    /\ Ifa.ifa_addr = NULL
    /\ UNCHANGED interfaces

WalkInet ==
    /\ Iterate
    /\ Ifa.ifa_addr # NULL
    /\ Ifa.ifa_addr.sa_family = AF_INET
    /\ interfaces' = update_interfaces(Index, Ifa.ifa_name,
                         if_addr_v4(Ifa, FlagsOfIfa), FlagsOfIfa, interfaces)

WalkInet6 ==
    /\ Iterate
    /\ Ifa.ifa_addr # NULL
    /\ Ifa.ifa_addr.sa_family = AF_INET6
    /\ interfaces' = update_interfaces(Index, Ifa.ifa_name,
                         if_addr_v6(Ifa), FlagsOfIfa, interfaces)

WalkOther ==
    /\ Iterate
    /\ Ifa.ifa_addr # NULL
    /\ Ifa.ifa_addr.sa_family \notin {AF_INET, AF_INET6}
    /\ interfaces' = update_interfaces_with_mac(Index, Ifa.ifa_name,
                         mac_addr(Ifa, Ifa.ifa_addr.sa_family), FlagsOfIfa,
                         interfaces)

\* the cursor is null: the loop ends and freeifaddrs(ifaddr_ptr) runs
FreeIfAddrs ==
    /\ pc = "walk"
    /\ current_ptr = 0
    /\ released' = released + 1
    /\ pc' = "freed"
    /\ UNCHANGED <<osStatus, osList, ifaddr_ptr, current_ptr, interfaces,
                   nodesRead, readAfterFree, result, derived>>

\* Ok(interfaces.into_values().collect())
ReturnOk ==
    /\ pc = "freed"
    /\ result' = Ok(into_values(interfaces))
    /\ pc' = "returned"
    /\ UNCHANGED <<osStatus, osList, ifaddr_ptr, current_ptr, interfaces,
                   nodesRead, released, readAfterFree, derived>>

\* local_ipv4_addresses(), once its call of network_interfaces() is back
local_ipv4_addresses ==
    /\ pc = "returned"
    /\ derived' = IF result.ok THEN Ok(filter_map([i \in 1..Len(result.val) |->
                                                Ipv4OfInterface(result.val[i])]))
                  ELSE result
    /\ pc' = "ipv4"
    /\ UNCHANGED <<osStatus, osList, ifaddr_ptr, current_ptr, interfaces,
                   nodesRead, released, readAfterFree, result>>

\* local_ipv6_addresses(), once its call of network_interfaces() is back
local_ipv6_addresses ==
    /\ pc = "returned"
    /\ derived' = IF result.ok THEN Ok(filter_map([i \in 1..Len(result.val) |->
                                                Ipv6OfInterface(result.val[i])]))
                  ELSE result
    /\ pc' = "ipv6"
    /\ UNCHANGED <<osStatus, osList, ifaddr_ptr, current_ptr, interfaces,
                   nodesRead, released, readAfterFree, result>>

Next ==
    \/ GetIfAddrsFailed
    \/ GetIfAddrsOk
    \/ DiagnosticPanics
    \/ WalkNullAddr
    \/ WalkInet
    \/ WalkInet6
    \/ WalkOther
    \/ FreeIfAddrs
    \/ ReturnOk
    \/ local_ipv4_addresses
    \/ local_ipv6_addresses

Spec == Init /\ [][Next]_vars

----------------------------------------------------------------------------
(* Vocabulary of the properties: the raw list as the caller sees it *)

Positions == 1..Len(osList)

NonNull(k) == osList[k].ifa_addr # NULL

Family(k) == osList[k].ifa_addr.sa_family

IsIp(k) == NonNull(k) /\ Family(k) \in {AF_INET, AF_INET6}

\* the records with a non-null address that resolved to index i
RecordsOf(i) == { k \in Positions : NonNull(k) /\ osList[k].ifindex = i }

RECURSIVE Ascending(_)
Ascending(S) ==
    IF S = {} THEN <<>> ELSE <<Min(S)>> \o Ascending(S \ {Min(S)})

Max(S) == CHOOSE x \in S : \A y \in S : y <= x

\* network_interfaces() has returned Ok
ReturnedOk == pc \in {"returned", "ipv4", "ipv6"} /\ result.ok

\* the call is over after a successful acquisition, by a return or a panic
Exited == osStatus = 0 /\ pc \in {"returned", "ipv4", "ipv6", "panicked"}

\* the flag bits of the two flag words, read off their bits
ExpectedFlags(bits) ==
    IF bits = IFF_UP + IFF_LOOPBACK + IFF_RUNNING
    THEN [up |-> TRUE, loopback |-> TRUE, running |-> TRUE,
          multicast |-> FALSE, broadcast |-> FALSE]
    ELSE [up |-> TRUE, loopback |-> FALSE, running |-> TRUE,
          multicast |-> TRUE, broadcast |-> TRUE]

\* the six hardware bytes of the payloads in lowercase colon-separated hex
ExpectedMacString(bytes) ==
    IF bytes = <<170, 187, 204, 221, 238, 255, 0, 0>> THEN "aa:bb:cc:dd:ee:ff"
    ELSE IF bytes = <<0, 27, 33, 10, 11, 12, 13, 14>> THEN "00:1b:21:0a:0b:0c"
    ELSE "02:00:00:00:00:01"

\* fe80::/10
LinkLocal(ip) == ip[1] = 254 /\ ip[2] \div 64 = 2

----------------------------------------------------------------------------
(* C1 *)

C1_State ==
    ReturnedOk =>
        /\ \A a, b \in 1..Len(result.val) :
               a < b => result.val[a].index < result.val[b].index
        /\ { result.val[a].index : a \in 1..Len(result.val) }
               = { osList[k].ifindex : k \in { j \in Positions : NonNull(j) } }

C1_NullStep ==
    (pc = "walk" /\ current_ptr # 0 /\ osList[current_ptr].ifa_addr = NULL)
        => interfaces' = interfaces

\* C1: when acquisition succeeds the returned collection is in strictly
\* ascending order of index and holds exactly one entry per distinct resolved
\* index among the records whose address pointer is non-null; a step over a
\* record whose address pointer is null leaves the map as it was.
C1_AscendingOnePerIndex == []C1_State /\ [][C1_NullStep]_vars

\* two records with addresses, the larger index first: two entries, sorted
C1_Witness ==
    /\ ReturnedOk
    /\ Len(osList) = 2
    /\ NonNull(1) /\ NonNull(2)
    /\ osList[1].ifindex > osList[2].ifindex
    /\ Len(result.val) = 2

----------------------------------------------------------------------------
(* C2 *)

\* the IPv4/IPv6 records of index i, in list order
IpRecordsOf(i) == Ascending({ k \in RecordsOf(i) : IsIp(k) })

\* C2: the addr of the entry for index i holds exactly one Addr per IPv4 or
\* IPv6 record of that index, in list order (the variant and the IP of each
\* are those of its record); an interface with one IPv4 and one IPv6 record
\* is one entry whose addr has length 2.
C2_AddrPerIpRecord ==
    ReturnedOk =>
        \A n \in 1..Len(result.val) :
            LET e == result.val[n]
                ks == IpRecordsOf(e.index)
            IN  /\ Len(e.addr) = Len(ks)
                /\ \A j \in 1..Len(ks) :
                       IF Family(ks[j]) = AF_INET
                       THEN /\ e.addr[j].tag = "IPv4"
                            /\ e.addr[j].ip = osList[ks[j]].ifa_addr.sin_addr
                       ELSE /\ e.addr[j].tag = "IPv6"
                            /\ e.addr[j].ip = osList[ks[j]].ifa_addr.sin6_addr

\* one IPv4 and one IPv6 record of the same interface: one entry, two addresses
C2_Witness ==
    /\ ReturnedOk
    /\ Len(osList) = 2
    /\ IsIp(1) /\ IsIp(2)
    /\ Family(1) # Family(2)
    /\ osList[1].ifindex = osList[2].ifindex
    /\ Len(result.val) = 1
    /\ Len(result.val[1].addr) = 2

----------------------------------------------------------------------------
(* C3 *)

\* C3: once acquisition has succeeded the raw list is released exactly once
\* on every exit path (normal completion or a failure inside the walk), the
\* release comes after the last raw record has been read, and no raw record
\* is read after the release.
C3_ReleasedOnEveryExit ==
    /\ released <= 1
    /\ ~readAfterFree
    /\ released = 1 => nodesRead = Len(osList)
    /\ Exited => released = 1

\* the part of C3 that the code keeps: on the return path
C3_ReleasedOnReturn ==
    /\ released <= 1
    /\ ~readAfterFree
    /\ released = 1 => nodesRead = Len(osList)
    /\ (ReturnedOk /\ osStatus = 0) => released = 1

----------------------------------------------------------------------------
(* C4 *)

\* C4: when getifaddrs reports a non-zero status, network_interfaces()
\* returns FailedToGetResource carrying that status at once: no record is
\* walked, nothing is released, no collection is built; the two derived
\* queries return the same error.
C4_AcquisitionFailure ==
    (osStatus # 0 /\ pc # "start") =>
        /\ pc \in {"returned", "ipv4", "ipv6"}
        /\ ~result.ok
        /\ result.err.kind = "FailedToGetResource"
        /\ result.err.msg = (IF osStatus = -1 THEN "getifaddrs returned -1"
                             ELSE "getifaddrs returned 1")
        /\ nodesRead = 0
        /\ released = 0
        /\ interfaces = <<>>
        /\ pc \in {"ipv4", "ipv6"} => derived = result

C4_Witness ==
    /\ osStatus = -1
    /\ pc = "ipv6"
    /\ ~derived.ok
    /\ derived.err.msg = "getifaddrs returned -1"

----------------------------------------------------------------------------
(* C5 *)

HasIpv4(ni) == \E j \in 1..Len(ni.addr) : ni.addr[j].tag = "IPv4"

FirstIpv4(ni) ==
    ni.addr[Min({ j \in 1..Len(ni.addr) : ni.addr[j].tag = "IPv4" })].ip

Ipv4Contributor(ni) == ~ni.flags.loopback /\ HasIpv4(ni)

----------------------------------------------------------------------------
(* C6 *)

GlobalIpv6At(ni) ==
    { j \in 1..Len(ni.addr) :
          ni.addr[j].tag = "IPv6" /\ ~LinkLocal(ni.addr[j].ip) }

Ipv6Contributor(ni) == ~ni.flags.loopback /\ GlobalIpv6At(ni) # {}

----------------------------------------------------------------------------
(* C7 *)

\* the records with a non-null address whose index resolution failed
Vanished == RecordsOf(0)

\* C7: when index resolution fails for a record with a non-null address the
\* enumeration is not aborted: the walk reaches the end of the list, the call
\* returns Ok, and the output has an entry with index 0 that carries that
\* record's name; this for every such record of the list.
C7_VanishedStillReported ==
    \A k \in Vanished :
        /\ pc # "panicked"
        /\ pc \in {"returned", "ipv4", "ipv6"} =>
               /\ result.ok
               /\ nodesRead = Len(osList)
               /\ \E n \in 1..Len(result.val) :
                      /\ result.val[n].index = 0
                      /\ result.val[n].name = osList[k].ifa_name

\* what the code does keep of C7: a call that returns has walked the whole
\* list and returns Ok with one entry of index 0, named after the first
\* record that failed to resolve
C7_FirstVanishedNamesEntry ==
    (ReturnedOk /\ Vanished # {}) =>
        /\ nodesRead = Len(osList)
        /\ \E n \in 1..Len(result.val) :
               /\ result.val[n].index = 0
               /\ result.val[n].name = osList[Min(Vanished)].ifa_name

----------------------------------------------------------------------------
(* C8 *)

\* a step of the walk over the record under the cursor
WalkStep == pc = "walk" /\ current_ptr # 0 /\ pc' = "walk"

C8_MergeStep ==
    LET r == osList[current_ptr]
        i == r.ifindex
    IN  (WalkStep /\ r.ifa_addr # NULL /\ i \in DOMAIN interfaces) =>
            /\ DOMAIN interfaces' = DOMAIN interfaces
            /\ \A j \in DOMAIN interfaces : j # i => interfaces'[j] = interfaces[j]
            /\ interfaces'[i].index = interfaces[i].index
            /\ interfaces'[i].name = interfaces[i].name
            /\ interfaces'[i].flags = interfaces[i].flags
            /\ IF r.ifa_addr.sa_family \in {AF_INET, AF_INET6}
               THEN /\ Len(interfaces'[i].addr) = Len(interfaces[i].addr) + 1
                    /\ SubSeq(interfaces'[i].addr, 1, Len(interfaces[i].addr))
                           = interfaces[i].addr
                    /\ interfaces'[i].mac_addr = interfaces[i].mac_addr
               ELSE interfaces'[i].addr = interfaces[i].addr

C8_State ==
    ReturnedOk =>
        \A n \in 1..Len(result.val) :
            LET first == osList[Min(RecordsOf(result.val[n].index))]
            IN  /\ result.val[n].name = first.ifa_name
                /\ result.val[n].flags = ExpectedFlags(first.ifa_flags)

\* C8: merging a record into a slot that exists leaves the slot's index, name
\* and flags as they were; an IPv4/IPv6 record only appends one Addr, a record
\* of another family only replaces mac_addr; so the name and flags of every
\* output entry are those of the first non-null-address record of its index.
C8_MergeKeepsNameAndFlags == []C8_State /\ [][C8_MergeStep]_vars

\* two records of different names and flags merged under index 0
C8_Witness ==
    /\ ReturnedOk
    /\ Len(osList) = 2
    /\ Vanished = {1, 2}
    /\ osList[1].ifa_name # osList[2].ifa_name
    /\ ~IsIp(2)
    /\ Len(result.val) = 1
    /\ result.val[1].name = osList[1].ifa_name

----------------------------------------------------------------------------
(* C9 *)

\* C9 as stated: the flags of an entry are the translated flag bits of the
\* last record of the list with that index (last write wins).
C9_LastFlagsWin ==
    ReturnedOk =>
        \A n \in 1..Len(result.val) :
            result.val[n].flags
                = ExpectedFlags(osList[Max(RecordsOf(result.val[n].index))].ifa_flags)

\* C9, amended: each entry holds one Flags value and the first write wins: the
\* flags of an entry are the translated flag bits of the first record of the
\* list with a non-null address and that index.
C9_FirstFlagsWin ==
    ReturnedOk =>
        \A n \in 1..Len(result.val) :
            result.val[n].flags
                = ExpectedFlags(osList[Min(RecordsOf(result.val[n].index))].ifa_flags)

\* two IP records of one index that differ in their flag bits
C9_Witness ==
    /\ ReturnedOk
    /\ Len(osList) = 2
    /\ IsIp(1) /\ IsIp(2)
    /\ osList[1].ifindex = osList[2].ifindex
    /\ osList[1].ifa_flags # osList[2].ifa_flags
    /\ Len(result.val) = 1
    /\ result.val[1].flags = ExpectedFlags(osList[1].ifa_flags)

----------------------------------------------------------------------------
(* C10 *)

\* the records of index i with an address of another family than IPv4/IPv6
LinkRecordsOf(i) == { k \in RecordsOf(i) : ~IsIp(k) }

ExpectedMac(k) ==
    IF Family(k) = AF_PACKET /\ osList[k].ifa_addr.sll_halen = 6
    THEN Some(ExpectedMacString(osList[k].ifa_addr.sll_addr))
    ELSE None

\* C10: the mac_addr of the entry for index i is the decode of the last record
\* of index i whose family is neither IPv4 nor IPv6 (None without one), also
\* when that decode is None after an earlier Some; the decode is Some of the
\* lowercase colon-separated hex of six bytes exactly when the family is
\* AF_PACKET and the declared length is 6; such records add nothing to addr.
C10_LastMacWins ==
    ReturnedOk =>
        \A n \in 1..Len(result.val) :
            LET e == result.val[n]
            IN  /\ e.mac_addr = (IF LinkRecordsOf(e.index) = {} THEN None
                                 ELSE ExpectedMac(Max(LinkRecordsOf(e.index))))
                /\ Len(e.addr) = Cardinality(RecordsOf(e.index) \ LinkRecordsOf(e.index))

\* a six-byte hardware address, then a link record of another length
C10_Witness ==
    /\ ReturnedOk
    /\ Len(osList) = 2
    /\ LinkRecordsOf(osList[1].ifindex) = {1, 2}
    /\ ExpectedMac(1) = Some("aa:bb:cc:dd:ee:ff")
    /\ Family(2) = AF_PACKET
    /\ ExpectedMac(2) = None
    /\ result.val[1].mac_addr = None
    /\ result.val[1].addr = <<>>

====
